---------------------------- MODULE Spec2Model ----------------------------
(***************************************************************************)
(* Coverage filter (clean_data.py) and spine merge (merge_filtered.py) of  *)
(* the CSMAR panel pipeline.                                               *)
(*                                                                         *)
(* A DataFrame is [cols |-> sequence of column names, rows |-> sequence of *)
(* rows], a row being a function from the column names to cell values.     *)
(* A company id cell is the sequence of the characters of its str() form   *)
(* (the float 1.0 is <<"1", ".", "0">>), or NA for a missing value.        *)
(* A date cell is [fmt, y, ye]: fmt "iso" is a value the strict            *)
(* "%Y-%m-%d" parse accepts (an ISO string or a timestamp), "alt" a date   *)
(* string only the permissive parse accepts, "bad" one neither accepts;    *)
(* y is its year and ye says whether it is a 31 December.                  *)
(* A parsed year is a set: {y}, or {} for NaN.                             *)
(***************************************************************************)
EXTENDS Integers, Sequences, FiniteSets, TLC

VARIABLES
    pc,                  \* position of the running program
    astype_keeps_na,     \* build: Series.astype(str) keeps NaN (pandas >= 3) or yields "nan"
    df,                  \* argument of the function under analysis
    year_col,            \* its year column, or None
    keep_companies,      \* argument keep_companies
    target_years,        \* argument / option target_years
    min_years,           \* argument / option min_years
    coverage,            \* result of companies_with_full_years
    out,                 \* result of filter_for_companies_and_years
    out2,                \* result of filtering `out` again
    files,               \* process: the input file of each dataset, or NoFile
    edits,               \* process: edits the environment made to the input files
    include_consolidated,\* process: option --allow-consolidated
    ci,                  \* process: index of the dataset the running loop is at
    loaded,              \* process: loaded[key] = (df, company_col, year_col)
    metadata,            \* process: metadata[key]
    common_companies,    \* process: the retained companies
    printed,             \* process: lines printed so far
    saved,               \* process: the filtered file written for each dataset, or NoFile
    err,                 \* the exception that ended the run, or None
    mfiles,              \* merge: the filtered file of each source, or NoFile
    puts,                \* merge: files and rows the environment has put
    odd,                 \* merge: files put with a schema other than the usual one
    dfs,                 \* merge: the loaded sources
    spine,               \* merge: the (Symbol, Date) key table
    merged,              \* merge: the running merged table
    mi,                  \* merge: index of the source the join loop is at
    output               \* merge: the table written to output_path, or NoFile

fnvars == <<df, year_col, keep_companies, coverage, out, out2>>
procvars == <<files, edits, include_consolidated, ci, loaded, metadata,
              common_companies, printed, saved, err>>
mergevars == <<mfiles, puts, odd, dfs, spine, merged, mi, output>>
vars == <<pc, astype_keeps_na, target_years, min_years, fnvars, procvars, mergevars>>

-----------------------------------------------------------------------------
(* Bounds *)

MaxRows == 3
MaxEdits == 1
MaxPuts == 3
MaxOdd == 1
MaxIdLen == 4

-----------------------------------------------------------------------------
(* Values *)

None == "<None>"
NA == <<"<NA>">>
Unset == "<unset>"
NoFile == [missing |-> TRUE]
YEAR == "__year"

ToSet(s) == {s[i] : i \in DOMAIN s}
NoDup(s) == \A i, j \in DOMAIN s : s[i] = s[j] => i = j
SeqsUpTo(S, n) == UNION {[1..k -> S] : k \in 0..n}

(* The k-th smallest element of the set of indices idx. *)
Nth(idx, k) == CHOOSE i \in idx : Cardinality({j \in idx : j <= i}) = k
SelectIdx(s, idx) == [k \in 1..Cardinality(idx) |-> s[Nth(idx, k)]]

-----------------------------------------------------------------------------
(* pandas primitives *)

HasCol(d, c) == \E i \in DOMAIN d.cols : d.cols[i] = c
Column(d, c) == [i \in DOMAIN d.rows |-> d.rows[i][c]]

(* d[c] = vals: replaces the column, or appends it when it is new. *)
SetCol(d, c, vals) ==
    [cols |-> IF HasCol(d, c) THEN d.cols ELSE Append(d.cols, c),
     rows |-> [i \in DOMAIN d.rows |->
                 [x \in (DOMAIN d.rows[i]) \cup {c} |->
                     IF x = c THEN vals[i] ELSE d.rows[i][x]]]]

(* d.drop(columns=[c]) *)
DropCol(d, c) ==
    [cols |-> SelectSeq(d.cols, LAMBDA x : x # c),
     rows |-> [i \in DOMAIN d.rows |->
                 [x \in (DOMAIN d.rows[i]) \ {c} |-> d.rows[i][x]]]]

(* d.loc[mask] followed by reset_index(drop=True): rows keep their order. *)
Loc(d, mask) ==
    [cols |-> d.cols,
     rows |-> SelectIdx(d.rows, {i \in DOMAIN d.rows : mask[i]})]

(* Series.astype(str) on one cell. *)
AsStr(v) == IF v = NA /\ ~astype_keeps_na THEN <<"n", "a", "n">> ELSE v

(* The characters str.strip() removes, as far as identifiers hold them. *)
Whitespace == {" ", "\t", "\n"}
RECURSIVE LStrip(_)
LStrip(s) == IF Len(s) > 0 /\ s[1] \in Whitespace THEN LStrip(Tail(s)) ELSE s
RECURSIVE RStrip(_)
RStrip(s) == IF Len(s) > 0 /\ s[Len(s)] \in Whitespace
             THEN RStrip(SubSeq(s, 1, Len(s) - 1)) ELSE s
(* str.strip() *)
Strip(s) == RStrip(LStrip(s))

(* str.replace(r"\.0$", "", regex=True): one trailing ".0" is removed. *)
DropDotZero(s) ==
    IF Len(s) >= 2 /\ s[Len(s) - 1] = "." /\ s[Len(s)] = "0"
    THEN SubSeq(s, 1, Len(s) - 2) ELSE s

(* pd.to_datetime(..., format="%Y-%m-%d", errors="coerce").dt.year *)
StrictYear(d) == IF d.fmt = "iso" THEN {d.y} ELSE {}
(* pd.to_datetime(..., errors="coerce").dt.year *)
FlexYear(d) == IF d.fmt \in {"iso", "alt"} THEN {d.y} ELSE {}

-----------------------------------------------------------------------------
(* clean_data.py *)

(* Mutant: the trailing ".0" is removed before the whitespace. *)
NormalizeDotZeroFirst(v) == IF AsStr(v) = NA THEN NA ELSE Strip(DropDotZero(AsStr(v)))

NormalizeOnce(v) == IF AsStr(v) = NA THEN NA ELSE DropDotZero(Strip(AsStr(v)))
normalize_company_id(series) == [i \in DOMAIN series |-> NormalizeOnce(series[i])]

normalize_year(d, date_col) ==
    LET raw == Column(d, date_col)
        dates == [i \in DOMAIN raw |-> StrictYear(raw[i])]
    IN  IF \A i \in DOMAIN dates : dates[i] = {}
        THEN [i \in DOMAIN raw |-> FlexYear(raw[i])]
        ELSE dates

(* Mutant: the threshold compared with > instead of >=. *)
companies_with_full_years_gt(d, company_col, ycol, tyears, myears) ==
    LET temp == SetCol(d, company_col, normalize_company_id(Column(d, company_col)))
    IN  IF ycol = None
        THEN ToSet(Column(temp, company_col)) \ {NA}
        ELSE LET t2 == SetCol(temp, YEAR, normalize_year(temp, ycol))
                 t3 == Loc(t2, [i \in DOMAIN t2.rows |->
                                   t2.rows[i][company_col] # NA /\ t2.rows[i][YEAR] # {}])
             IN  {c \in ToSet(Column(t3, company_col)) :
                    Cardinality((UNION {t3.rows[i][YEAR] :
                                           i \in {j \in DOMAIN t3.rows :
                                                     t3.rows[j][company_col] = c}})
                                \cap tyears) > myears}

companies_with_full_years(d, company_col, ycol, tyears, myears) ==
    LET temp == SetCol(d, company_col, normalize_company_id(Column(d, company_col)))
    IN  IF ycol = None
        THEN ToSet(Column(temp, company_col)) \ {NA}
        ELSE LET t2 == SetCol(temp, YEAR, normalize_year(temp, ycol))
                 t3 == Loc(t2, [i \in DOMAIN t2.rows |->
                                   t2.rows[i][company_col] # NA /\ t2.rows[i][YEAR] # {}])
                 year_sets == [c \in ToSet(Column(t3, company_col)) |->
                                 (UNION {t3.rows[i][YEAR] :
                                            i \in {j \in DOMAIN t3.rows :
                                                      t3.rows[j][company_col] = c}})
                                 \cap tyears]
             IN  {c \in DOMAIN year_sets : Cardinality(year_sets[c]) >= myears}

(* Mutant: the rows are not filtered by year. *)
filter_companies_only(d, company_col, ycol, keep, tyears) ==
    LET o1 == SetCol(d, company_col, normalize_company_id(Column(d, company_col)))
    IN  Loc(o1, [i \in DOMAIN o1.rows |-> o1.rows[i][company_col] \in keep])

(* Mutant: the working column is not dropped. *)
filter_keeping_year_column(d, company_col, ycol, keep, tyears) ==
    LET o1 == SetCol(d, company_col, normalize_company_id(Column(d, company_col)))
        m1 == [i \in DOMAIN o1.rows |-> o1.rows[i][company_col] \in keep]
    IN  IF ycol # None
        THEN LET o2 == SetCol(o1, YEAR, normalize_year(o1, ycol))
                 m2 == [i \in DOMAIN o2.rows |->
                           m1[i] /\ o2.rows[i][YEAR] # {} /\ o2.rows[i][YEAR] \subseteq tyears]
             IN  Loc(o2, m2)
        ELSE Loc(o1, m1)

filter_for_companies_and_years(d, company_col, ycol, keep, tyears) ==
    LET o1 == SetCol(d, company_col, normalize_company_id(Column(d, company_col)))
        m1 == [i \in DOMAIN o1.rows |-> o1.rows[i][company_col] \in keep]
    IN  IF ycol # None
        THEN LET o2 == SetCol(o1, YEAR, normalize_year(o1, ycol))
                 m2 == [i \in DOMAIN o2.rows |->
                           m1[i] /\ o2.rows[i][YEAR] # {} /\ o2.rows[i][YEAR] \subseteq tyears]
             IN  Loc(DropCol(o2, YEAR), m2)
        ELSE Loc(o1, m1)

DATASETS ==
    << [key |-> "cg_co", company_cols |-> <<"Stkcd">>, date_cols |-> << >>,
        filter_col |-> None, filter_keep |-> {}],
       [key |-> "fs_combas", company_cols |-> <<"Stkcd">>, date_cols |-> <<"Accper">>,
        filter_col |-> "Typrep", filter_keep |-> {"B"}],
       [key |-> "fs_comins", company_cols |-> <<"Stkcd">>, date_cols |-> <<"Accper">>,
        filter_col |-> "Typrep", filter_keep |-> {"B"}],
       [key |-> "mc_diversified_degree", company_cols |-> <<"Symbol">>,
        date_cols |-> <<"EndDate">>,
        filter_col |-> "StateTypeCode", filter_keep |-> {"2"}],
       [key |-> "mc_diversified_product", company_cols |-> <<"Symbol">>,
        date_cols |-> <<"EndDate">>,
        filter_col |-> "StateTypeCode", filter_keep |-> {"2"}] >>
DatasetKeys == {DATASETS[i].key : i \in DOMAIN DATASETS}

(* The first of `columns` present in d, or None (where the code raises KeyError). *)
pick_first_existing(d, columns) ==
    LET present == {i \in DOMAIN columns : HasCol(d, columns[i])}
    IN  IF present = {} THEN None ELSE columns[Nth(present, 1)]

(* The values apply_row_filter keeps; a filter cell is the str() of its value. *)
keep_values(cfg, consolidated) ==
    cfg.filter_keep
    \cup (IF consolidated /\ cfg.key \in {"mc_diversified_degree", "mc_diversified_product"}
          THEN {"1"} ELSE {})
    \cup (IF consolidated /\ cfg.key \in {"fs_combas", "fs_comins"} THEN {"A"} ELSE {})

(* Defined when cfg.filter_col is None or a column of d. *)
apply_row_filter(d, cfg, consolidated) ==
    IF cfg.filter_col = None THEN d
    ELSE Loc(d, [i \in DOMAIN d.rows |->
                    d.rows[i][cfg.filter_col] \in keep_values(cfg, consolidated)])

(* Mutant: every row with a parsable date is kept. *)
filter_any_parsed_date(d, date_col) ==
    IF date_col = None THEN d
    ELSE Loc(d, [i \in DOMAIN d.rows |-> d.rows[i][date_col].fmt \in {"iso", "alt"}])

(* Defined when date_col is None or a column of d. *)
filter_year_end(d, date_col) ==
    IF date_col = None THEN d
    ELSE Loc(d, [i \in DOMAIN d.rows |->
                    d.rows[i][date_col].fmt \in {"iso", "alt"} /\ d.rows[i][date_col].ye])

(* The exception one iteration of the loading loop of process raises on the *)
(* file f of dataset cfg, or None.                                          *)
load_error(cfg, f) ==
    IF f = NoFile THEN "FileNotFoundError"
    ELSE IF cfg.filter_col # None /\ ~HasCol(f, cfg.filter_col) THEN "KeyError"
    ELSE IF cfg.date_cols # << >> /\ ~HasCol(f, cfg.date_cols[1]) THEN "KeyError"
    ELSE IF pick_first_existing(f, cfg.company_cols) = None THEN "KeyError"
    ELSE None

(* The table, company column and year column process keeps for dataset cfg. *)
load_dataset(cfg, f, consolidated) ==
    LET d1 == apply_row_filter(f, cfg, consolidated)
        d2 == filter_year_end(d1, IF cfg.date_cols # << >> THEN cfg.date_cols[1] ELSE None)
    IN  [df |-> d2,
         company_col |-> pick_first_existing(d2, cfg.company_cols),
         year_col |-> IF cfg.date_cols # << >>
                      THEN pick_first_existing(d2, cfg.date_cols) ELSE None]

(* metadata[cfg.key] of process; years_present is kept as the set of years. *)
dataset_metadata(l, tyears, myears) ==
    [company_col |-> l.company_col,
     year_col |-> l.year_col,
     coverage |-> companies_with_full_years(l.df, l.company_col, l.year_col, tyears, myears),
     row_count |-> Len(l.df.rows),
     unique_companies |-> Cardinality(ToSet(Column(l.df, l.company_col)) \ {NA}),
     years_present |-> IF l.year_col = None THEN {}
                       ELSE UNION ToSet(normalize_year(l.df, l.year_col))]

(* Mutant: the datasets without a year column are left out of the intersection. *)
intersect_dated_only(meta) ==
    {c \in UNION {meta[k].coverage : k \in DOMAIN meta} :
        \A k \in DOMAIN meta : meta[k].year_col # None => c \in meta[k].coverage}

(* set.intersection over the coverage sets of all datasets of metadata *)
intersect_coverage(meta) ==
    {c \in UNION {meta[k].coverage : k \in DOMAIN meta} :
        \A k \in DOMAIN meta : c \in meta[k].coverage}

-----------------------------------------------------------------------------
(* Inputs of the function-level analysis: one dataset with a company       *)
(* column "Stkcd", a date column "Accper" and a value column "v".          *)

CoverageIds == {<<"1">>, <<"1", ".", "0">>, NA}
FilterIds == {<<"1", ".", "0">>, <<" ", "1", ".", "0", ".", "0">>, NA}
Dates == {[fmt |-> "iso", y |-> 2018, ye |-> TRUE],
          [fmt |-> "iso", y |-> 2019, ye |-> TRUE],
          [fmt |-> "alt", y |-> 2019, ye |-> TRUE],
          [fmt |-> "bad", y |-> 2018, ye |-> FALSE]}
FnRows(ids) == {[Stkcd |-> c, Accper |-> d, v |-> "x"] : c \in ids, d \in Dates}
FnFrames(ids) == {[cols |-> <<"Stkcd", "Accper", "v">>, rows |-> r] :
                     r \in SeqsUpTo(FnRows(ids), MaxRows)}
TargetSets == {{2018, 2019}, {2018}}
KeepSets == {{<<"1", ".", "0">>}, {<<"1">>, <<"n", "a", "n">>}}

(* The merge run is not part of the analysis of clean_data.py. *)
MergeIdle ==
    /\ mfiles = << >> /\ puts = 0 /\ odd = 0 /\ dfs = << >>
    /\ spine = Unset /\ merged = Unset /\ mi = 0 /\ output = NoFile

(* The process run is not part of the function-level analysis. *)
ProcIdle ==
    /\ files = << >> /\ edits = 0 /\ include_consolidated = FALSE /\ ci = 0
    /\ loaded = << >> /\ metadata = << >> /\ common_companies = {}
    /\ printed = << >> /\ saved = << >> /\ err = None
    /\ MergeIdle

InitCoverage ==
    /\ pc = "coverage"
    /\ astype_keeps_na \in BOOLEAN
    /\ df \in FnFrames(CoverageIds)
    /\ year_col \in {"Accper", None}
    /\ keep_companies = {}
    /\ target_years \in TargetSets
    /\ min_years \in 0..2
    /\ coverage = Unset
    /\ out = Unset
    /\ out2 = Unset
    /\ ProcIdle

Coverage ==
    /\ pc = "coverage"
    /\ coverage' = companies_with_full_years(df, "Stkcd", year_col, target_years, min_years)
    /\ pc' = "covered"
    /\ UNCHANGED <<astype_keeps_na, df, year_col, keep_companies, target_years,
                   min_years, out, out2, procvars, mergevars>>

SpecCoverage == InitCoverage /\ [][Coverage]_vars

InitFilter ==
    /\ pc = "filter"
    /\ astype_keeps_na \in BOOLEAN
    /\ df \in FnFrames(FilterIds)
    /\ year_col \in {"Accper", None}
    /\ keep_companies \in KeepSets
    /\ target_years \in TargetSets
    /\ min_years = 1
    /\ coverage = Unset
    /\ out = Unset
    /\ out2 = Unset
    /\ ProcIdle

Filter ==
    /\ pc = "filter"
    /\ out' = filter_for_companies_and_years(df, "Stkcd", year_col, keep_companies, target_years)
    /\ pc' = "refilter"
    /\ UNCHANGED <<astype_keeps_na, df, year_col, keep_companies, target_years,
                   min_years, coverage, out2, procvars, mergevars>>

Refilter ==
    /\ pc = "refilter"
    /\ out2' = filter_for_companies_and_years(out, "Stkcd", year_col, keep_companies, target_years)
    /\ pc' = "refiltered"
    /\ UNCHANGED <<astype_keeps_na, df, year_col, keep_companies, target_years,
                   min_years, coverage, out, procvars, mergevars>>

SpecFilter == InitFilter /\ [][Filter \/ Refilter]_vars

-----------------------------------------------------------------------------
(* process (clean_data.py): the environment prepares the five input files, *)
(* starting from a well-formed panel (company 1 observed at the year ends  *)
(* of 2018 and 2019 in every dataset) and editing it at most MaxEdits      *)
(* times; then process runs.                                               *)

Iso(y, yearend) == [fmt |-> "iso", y |-> y, ye |-> yearend]
Cfg(k) == DATASETS[CHOOSE i \in DOMAIN DATASETS : DATASETS[i].key = k]
Schema(cfg) ==
    cfg.company_cols \o cfg.date_cols
    \o (IF cfg.filter_col = None THEN << >> ELSE <<cfg.filter_col>>) \o <<"v">>
ParentValue(cfg) == CHOOSE x \in cfg.filter_keep : TRUE
ConsolidatedValue(cfg) == IF cfg.key \in {"fs_combas", "fs_comins"} THEN "A" ELSE "1"
MkRow(cfg, id, date, ft) ==
    [c \in ToSet(Schema(cfg)) |->
        IF c = cfg.company_cols[1] THEN id
        ELSE IF cfg.date_cols # << >> /\ c = cfg.date_cols[1] THEN date
        ELSE IF c = cfg.filter_col THEN ft
        ELSE "x"]
BaseRows(cfg) ==
    IF cfg.date_cols = << >>
    THEN << MkRow(cfg, <<"1">>, None, None) >>
    ELSE << MkRow(cfg, <<"1">>, Iso(2018, TRUE), ParentValue(cfg)),
            MkRow(cfg, <<"1">>, Iso(2019, TRUE), ParentValue(cfg)) >>
ExtraRows(cfg) ==
    IF cfg.date_cols = << >>
    THEN {MkRow(cfg, id, None, None) : id \in {<<"2">>, <<"1", ".", "0">>, NA}}
    ELSE {MkRow(cfg, <<"1", ".", "0">>, Iso(2019, TRUE), ParentValue(cfg)),
          MkRow(cfg, <<"2">>, Iso(2018, TRUE), ParentValue(cfg)),
          MkRow(cfg, <<"1">>, Iso(2019, FALSE), ParentValue(cfg)),
          MkRow(cfg, <<"1">>, Iso(2019, TRUE), ConsolidatedValue(cfg)),
          MkRow(cfg, <<"2">>, [fmt |-> "bad", y |-> 2018, ye |-> FALSE], ParentValue(cfg))}
BaseFiles == [k \in DatasetKeys |-> [cols |-> Schema(Cfg(k)), rows |-> BaseRows(Cfg(k))]]

FnIdle ==
    /\ df = Unset /\ year_col = None /\ keep_companies = {}
    /\ coverage = Unset /\ out = Unset /\ out2 = Unset

InitProcess ==
    /\ pc = "env"
    /\ astype_keeps_na \in BOOLEAN
    /\ target_years \in TargetSets
    /\ min_years \in 0..2
    /\ include_consolidated \in BOOLEAN
    /\ files = BaseFiles
    /\ edits = 0
    /\ ci = 0
    /\ loaded = << >>
    /\ metadata = << >>
    /\ common_companies = {}
    /\ printed = << >>
    /\ saved = [k \in DatasetKeys |-> NoFile]
    /\ err = None
    /\ FnIdle
    /\ MergeIdle

EnvUnchanged ==
    UNCHANGED <<pc, astype_keeps_na, target_years, min_years, fnvars, include_consolidated,
                ci, loaded, metadata, common_companies, printed, saved, err, mergevars>>

EnvAppend ==
    /\ pc = "env" /\ edits < MaxEdits
    /\ \E k \in DatasetKeys : \E r \in ExtraRows(Cfg(k)) :
          /\ files[k] # NoFile
          /\ DOMAIN r = ToSet(files[k].cols)
          /\ files' = [files EXCEPT ![k].rows = Append(@, r)]
    /\ edits' = edits + 1
    /\ EnvUnchanged

EnvDropLast ==
    /\ pc = "env" /\ edits < MaxEdits
    /\ \E k \in DatasetKeys :
          /\ files[k] # NoFile
          /\ files[k].rows # << >>
          /\ files' = [files EXCEPT ![k].rows = SubSeq(@, 1, Len(@) - 1)]
    /\ edits' = edits + 1
    /\ EnvUnchanged

EnvDropColumn ==
    /\ pc = "env" /\ edits < MaxEdits
    /\ \E k \in DatasetKeys :
          /\ files[k] # NoFile
          /\ \E c \in ToSet(files[k].cols) \ {"v"} : files' = [files EXCEPT ![k] = DropCol(@, c)]
    /\ edits' = edits + 1
    /\ EnvUnchanged

EnvDelete ==
    /\ pc = "env" /\ edits < MaxEdits
    /\ \E k \in DatasetKeys : files[k] # NoFile /\ files' = [files EXCEPT ![k] = NoFile]
    /\ edits' = edits + 1
    /\ EnvUnchanged

Start ==
    /\ pc = "env"
    /\ pc' = "load"
    /\ ci' = 1
    /\ UNCHANGED <<astype_keeps_na, target_years, min_years, fnvars, files, edits,
                   include_consolidated, loaded, metadata, common_companies, printed,
                   saved, err, mergevars>>

(* One iteration of the loop over DATASETS that loads and analyses a dataset. *)
Load ==
    /\ pc = "load"
    /\ LET cfg == DATASETS[ci]
           f == files[cfg.key]
       IN  IF load_error(cfg, f) # None
           THEN /\ err' = load_error(cfg, f)
                /\ pc' = "failed"
                /\ UNCHANGED <<ci, loaded, metadata>>
           ELSE LET l == load_dataset(cfg, f, include_consolidated)
                IN  /\ loaded' = (cfg.key :> l) @@ loaded
                    /\ metadata' = (cfg.key :> dataset_metadata(l, target_years, min_years))
                                   @@ metadata
                    /\ IF ci = Len(DATASETS)
                       THEN pc' = "report" /\ ci' = 0
                       ELSE pc' = "load" /\ ci' = ci + 1
                    /\ err' = err
    /\ UNCHANGED <<astype_keeps_na, target_years, min_years, fnvars, files, edits,
                   include_consolidated, common_companies, printed, saved, mergevars>>

report_lines(meta, common) ==
    << [line |-> "summary", companies |-> Cardinality(common)] >>
    \o [i \in DOMAIN DATASETS |->
          LET m == meta[DATASETS[i].key]
          IN  [line |-> "dataset", key |-> DATASETS[i].key, rows |-> m.row_count,
               unique |-> m.unique_companies, covered |-> Cardinality(m.coverage)]]

(* The intersection and the report printed for every dataset. *)
Report ==
    /\ pc = "report"
    /\ common_companies' = intersect_coverage(metadata)
    /\ printed' = printed \o report_lines(metadata, intersect_coverage(metadata))
    /\ pc' = "check"
    /\ UNCHANGED <<astype_keeps_na, target_years, min_years, fnvars, files, edits,
                   include_consolidated, ci, loaded, metadata, saved, err, mergevars>>

(* Mutant: an empty intersection does not stop the run. *)
CheckNeverRaises ==
    /\ pc = "check"
    /\ err' = err /\ pc' = "save" /\ ci' = 1
    /\ UNCHANGED <<astype_keeps_na, target_years, min_years, fnvars, files, edits,
                   include_consolidated, loaded, metadata, common_companies, printed, saved, mergevars>>

(* if not common_companies: raise RuntimeError *)
Check ==
    /\ pc = "check"
    /\ IF common_companies = {}
       THEN err' = "RuntimeError" /\ pc' = "failed" /\ ci' = ci
       ELSE err' = err /\ pc' = "save" /\ ci' = 1
    /\ UNCHANGED <<astype_keeps_na, target_years, min_years, fnvars, files, edits,
                   include_consolidated, loaded, metadata, common_companies, printed, saved, mergevars>>

(* One iteration of the loop that filters and saves a dataset. *)
Save ==
    /\ pc = "save"
    /\ LET key == DATASETS[ci].key
           l == loaded[key]
           filtered == filter_for_companies_and_years(l.df, l.company_col, l.year_col,
                                                      common_companies, target_years)
       IN  /\ saved' = [saved EXCEPT ![key] = filtered]
           /\ printed' = Append(printed, [line |-> "saved", key |-> key,
                                          rows |-> Len(filtered.rows)])
    /\ IF ci = Len(DATASETS) THEN pc' = "done" /\ ci' = 0 ELSE pc' = "save" /\ ci' = ci + 1
    /\ UNCHANGED <<astype_keeps_na, target_years, min_years, fnvars, files, edits,
                   include_consolidated, loaded, metadata, common_companies, err, mergevars>>

NextProcess ==
    \/ EnvAppend \/ EnvDropLast \/ EnvDropColumn \/ EnvDelete
    \/ Start \/ Load \/ Report \/ Check \/ Save

Spec == InitProcess /\ [][NextProcess]_vars

-----------------------------------------------------------------------------
(* merge_filtered.py.  Every cell of a merge input is a sequence: a company *)
(* id as before, a date <<"2018-12-31">>, another value <<"row", n>>; NA is *)
(* the null a left join fills in.                                          *)

merge_normalize_company_id(series) ==
    [i \in DOMAIN series |->
        IF AsStr(series[i]) = NA THEN NA ELSE DropDotZero(Strip(AsStr(series[i])))]

(* The keys of `files`, in the order of the dict. *)
MergeKeys == <<"cg_co", "fs_combas", "fs_comins", "mc_degree", "mc_pro">>
(* The keys of date_map, in the order of the dict, and its values. *)
DateMapKeys == <<"fs_combas", "fs_comins", "mc_degree", "mc_pro", "cg_co">>
date_map == [fs_combas |-> "Accper", fs_comins |-> "Accper", mc_degree |-> "EndDate",
             mc_pro |-> "EndDate", cg_co |-> None]
FALLBACKS == <<"Accper", "Accper.1", "EndDate", "EndDate.1">>

(* df.drop_duplicates(): the first occurrence of every row is kept. *)
drop_duplicates(rows) ==
    SelectIdx(rows, {i \in DOMAIN rows : \A j \in 1..(i - 1) : rows[j] # rows[i]})

RECURSIVE ConcatRows(_)
ConcatRows(parts) ==
    IF parts = << >> THEN << >> ELSE Head(parts).rows \o ConcatRows(Tail(parts))

(* Mutant: the concatenated parts are not deduplicated. *)
build_spine_no_final_dedup(parts, key_cols) ==
    [cols |-> key_cols,
     rows |-> ConcatRows([i \in DOMAIN parts |->
                            [cols |-> key_cols, rows |-> drop_duplicates(parts[i].rows)]])]

build_spine(parts, key_cols) ==
    [cols |-> key_cols,
     rows |-> drop_duplicates(
                 ConcatRows([i \in DOMAIN parts |->
                               [cols |-> key_cols, rows |-> drop_duplicates(parts[i].rows)]]))]

(* The "Normalize company id" loop, for one source. *)
with_symbol(d) ==
    IF HasCol(d, "Stkcd") THEN SetCol(d, "Symbol", merge_normalize_company_id(Column(d, "Stkcd")))
    ELSE IF HasCol(d, "Symbol")
         THEN SetCol(d, "Symbol", merge_normalize_company_id(Column(d, "Symbol")))
         ELSE d

first_fallback(d, default) ==
    LET present == {i \in DOMAIN FALLBACKS : HasCol(d, FALLBACKS[i])}
    IN  IF present = {} THEN default ELSE FALLBACKS[Nth(present, 1)]

(* Mutant: the spine loop looks for the declared name only. *)
actual_col_declared_only(d, declared_col) == declared_col

(* actual_col of the spine loop, for a dated source. *)
actual_col(d, declared_col) ==
    IF ~HasCol(d, declared_col) THEN first_fallback(d, declared_col) ELSE declared_col

(* date_col of the join loop. *)
date_col(d, declared_col) ==
    IF declared_col # None /\ ~HasCol(d, declared_col)
    THEN first_fallback(d, declared_col) ELSE declared_col

(* dated_keys *)
dated_keys(loaded_dfs) ==
    SelectSeq(DateMapKeys, LAMBDA k : date_map[k] # None /\ k \in DOMAIN loaded_dfs)

(* Whether the spine loop raises KeyError at source k. *)
spine_missing(d, k) ==
    ~HasCol(d, "Symbol") \/ ~HasCol(d, actual_col(d, date_map[k]))

(* df[["Symbol", actual_col]].rename(columns={actual_col: "Date"}) *)
spine_source(d, k) ==
    [cols |-> <<"Symbol", "Date">>,
     rows |-> [i \in DOMAIN d.rows |->
                 [c \in {"Symbol", "Date"} |->
                     IF c = "Symbol" THEN d.rows[i]["Symbol"]
                     ELSE d.rows[i][actual_col(d, date_map[k])]]]]

(* The join keys of a source whose resolved date column is dc. *)
join_on(dc) == IF dc # None THEN <<"Symbol", "Date">> ELSE <<"Symbol">>

(* Mutant: the non-key columns keep their names. *)
renamed_unprefixed(key, dc, c) ==
    IF dc # None /\ c = dc THEN "Date" ELSE c

(* The name column c of source `key` has in temp after the two renames. *)
renamed(key, dc, c) ==
    LET c1 == IF dc # None /\ c = dc THEN "Date" ELSE c
    IN  IF c1 \in ToSet(join_on(dc)) THEN c1 ELSE key \o "_" \o c1

(* temp.columns *)
temp_cols(d, key, dc) == [i \in DOMAIN d.cols |-> renamed(key, dc, d.cols[i])]

(* temp, defined when temp.columns holds no name twice. *)
temp_frame(d, key, dc) ==
    [cols |-> temp_cols(d, key, dc),
     rows |-> [i \in DOMAIN d.rows |->
                 [n \in ToSet(temp_cols(d, key, dc)) |->
                     d.rows[i][CHOOSE c \in ToSet(d.cols) : renamed(key, dc, c) = n]]]]

(* The rows of `right` a left row matches on the keys `on`. *)
Matches(l, right, on) ==
    {j \in DOMAIN right.rows : \A c \in ToSet(on) : right.rows[j][c] = l[c]}

(* The column names of left.merge(right, on=on): an overlapping non-key    *)
(* name gets the suffixes "_x" and "_y".                                   *)
merge_cols(left, right, on) ==
    LET overlap == (ToSet(left.cols) \cap ToSet(right.cols)) \ ToSet(on)
        lc == [i \in DOMAIN left.cols |->
                 IF left.cols[i] \in overlap THEN left.cols[i] \o "_x" ELSE left.cols[i]]
        rc == SelectSeq(right.cols, LAMBDA c : c \notin ToSet(on))
    IN  lc \o [i \in DOMAIN rc |-> IF rc[i] \in overlap THEN rc[i] \o "_y" ELSE rc[i]]

(* One merged row: the left row l with the right row r (or nulls when r is *)
(* NA) under the column names of the merge.                                *)
joined_row(left, right, on, l, r) ==
    LET overlap == (ToSet(left.cols) \cap ToSet(right.cols)) \ ToSet(on)
        lname(c) == IF c \in overlap THEN c \o "_x" ELSE c
        rname(c) == IF c \in overlap THEN c \o "_y" ELSE c
    IN  [n \in ToSet(merge_cols(left, right, on)) |->
            IF \E c \in ToSet(left.cols) : lname(c) = n
            THEN l[CHOOSE c \in ToSet(left.cols) : lname(c) = n]
            ELSE IF r = NA THEN NA
                 ELSE r[CHOOSE c \in ToSet(right.cols) \ ToSet(on) : rname(c) = n]]

RECURSIVE left_rows(_, _, _, _)
left_rows(left, right, on, i) ==
    IF i > Len(left.rows) THEN << >>
    ELSE LET l == left.rows[i]
             m == Matches(l, right, on)
         IN  (IF m = {} THEN << joined_row(left, right, on, l, NA) >>
              ELSE [k \in 1..Cardinality(m) |->
                      joined_row(left, right, on, l, right.rows[Nth(m, k)])])
             \o left_rows(left, right, on, i + 1)

RECURSIVE inner_rows(_, _, _, _)
inner_rows(left, right, on, i) ==
    IF i > Len(left.rows) THEN << >>
    ELSE LET l == left.rows[i]
             m == Matches(l, right, on)
         IN  [k \in 1..Cardinality(m) |->
                 joined_row(left, right, on, l, right.rows[Nth(m, k)])]
             \o inner_rows(left, right, on, i + 1)

(* Mutant: how="inner". *)
merge_inner(left, right, on) ==
    [cols |-> merge_cols(left, right, on), rows |-> inner_rows(left, right, on, 1)]

(* left.merge(right, how="left", left_on=on, right_on=on) *)
merge_left(left, right, on) ==
    [cols |-> merge_cols(left, right, on), rows |-> left_rows(left, right, on, 1)]

(* The exception the join of source `key` raises, or None. *)
join_error(left, d, key) ==
    LET dc == date_col(d, date_map[key])
        tc == temp_cols(d, key, dc)
    IN  IF \E c \in ToSet(join_on(dc)) : c \notin ToSet(tc) THEN "KeyError"
        ELSE IF ~NoDup(tc) THEN "ValueError"
        ELSE IF ~NoDup(merge_cols(left, [cols |-> tc, rows |-> << >>], join_on(dc)))
             THEN "MergeError"
        ELSE None

(* The environment puts filtered files and rows, at most MaxPuts in all,   *)
(* at most MaxOdd of the files with a schema other than the usual one;     *)
(* then merge_filtered runs.                                               *)

IdCol(k) == IF k \in {"mc_degree", "mc_pro"} THEN "Symbol" ELSE "Stkcd"
StdSchema(k) ==
    IF date_map[k] = None THEN <<IdCol(k), "v">> ELSE <<IdCol(k), date_map[k], "v">>
MSchemas(k) ==
    IF date_map[k] = None
    THEN {StdSchema(k), <<"Symbol", "v">>, <<"v">>, <<"Stkcd", "Date", "v">>}
    ELSE {StdSchema(k),
          <<IdCol(k), date_map[k] \o ".1", "v">>,
          <<IdCol(k), IF date_map[k] = "Accper" THEN "EndDate" ELSE "Accper", "v">>,
          <<IdCol(k), "EndDate.1", "Accper.1", "v">>,
          <<IdCol(k), "v">>,
          <<date_map[k], "v">>,
          <<IdCol(k), date_map[k], "Date", "v">>}
MIds(k) == IF date_map[k] = None THEN {<<"1", ".", "0">>, <<"2">>}
           ELSE {<<"1">>, <<"1", ".", "0">>}
MDates(k) == IF date_map[k] = None THEN {<<"2017-12-31">>}
             ELSE IF IdCol(k) = "Symbol" THEN {<<"2018-12-31">>}
             ELSE {<<"2018-12-31">>, <<"2019-12-31">>}
(* Row n of a file with columns cols: the id in its id column, the date in *)
(* its first date column (a further one holds another date), the row       *)
(* number elsewhere.                                                       *)
MkMRow(cols, id, d, n) ==
    LET dateish == {i \in DOMAIN cols : cols[i] \in ToSet(FALLBACKS)}
    IN  [c \in ToSet(cols) |->
            IF c \in {"Stkcd", "Symbol"} THEN id
            ELSE IF c \in ToSet(FALLBACKS)
                 THEN (IF cols[Nth(dateish, 1)] = c THEN d ELSE <<"2017-12-31">>)
            ELSE <<"row", n>>]

(* No file of this analysis holds a null identifier, so the two builds of   *)
(* astype(str) act alike here and one of them stands for both.             *)
InitMerge ==
    /\ pc = "menv"
    /\ astype_keeps_na = FALSE
    /\ target_years = {} /\ min_years = 0
    /\ FnIdle
    /\ files = << >> /\ edits = 0 /\ include_consolidated = FALSE /\ ci = 0
    /\ loaded = << >> /\ metadata = << >> /\ common_companies = {}
    /\ printed = << >> /\ saved = << >> /\ err = None
    /\ mfiles = [k \in ToSet(MergeKeys) |-> NoFile]
    /\ puts = 0 /\ odd = 0
    /\ dfs = << >>
    /\ spine = Unset
    /\ merged = Unset
    /\ mi = 0
    /\ output = NoFile

MergeFixed == UNCHANGED <<astype_keeps_na, target_years, min_years, fnvars, procvars>>

PutFile ==
    /\ pc = "menv" /\ puts < MaxPuts
    /\ \E k \in ToSet(MergeKeys) : \E sch \in MSchemas(k) :
          /\ mfiles[k] = NoFile
          /\ sch # StdSchema(k) => odd < MaxOdd
          /\ odd' = IF sch # StdSchema(k) THEN odd + 1 ELSE odd
          /\ mfiles' = [mfiles EXCEPT ![k] = [cols |-> sch, rows |-> << >>]]
    /\ puts' = puts + 1
    /\ UNCHANGED <<pc, dfs, spine, merged, mi, output>>
    /\ MergeFixed

PutRow ==
    /\ pc = "menv" /\ puts < MaxPuts
    /\ \E k \in ToSet(MergeKeys) : \E id \in MIds(k) : \E d \in MDates(k) :
          LET f == IF mfiles[k] = NoFile THEN [cols |-> StdSchema(k), rows |-> << >>]
                   ELSE mfiles[k]
          IN  mfiles' = [mfiles EXCEPT ![k] =
                            [f EXCEPT !.rows = Append(@, MkMRow(f.cols, id, d, Len(@) + 1))]]
    /\ puts' = puts + 1
    /\ UNCHANGED <<pc, odd, dfs, spine, merged, mi, output>>
    /\ MergeFixed

(* The files found, read and given their Symbol column. *)
MLoad ==
    /\ pc = "menv"
    /\ LET found == {k \in ToSet(MergeKeys) : mfiles[k] # NoFile}
       IN  /\ dfs' = [k \in found |-> with_symbol(mfiles[k])]
           /\ IF found = {}
              THEN pc' = "failed" /\ err' = "FileNotFoundError"
              ELSE pc' = "spine" /\ err' = err
    /\ UNCHANGED <<astype_keeps_na, target_years, min_years, fnvars, files, edits,
                   include_consolidated, ci, loaded, metadata, common_companies, printed,
                   saved, mfiles, puts, odd, spine, merged, mi, output>>

(* The loaded sources, in the order of dfs.items(). *)
LoadedSeq == SelectSeq(MergeKeys, LAMBDA k : k \in DOMAIN dfs)

(* The spine is built from the dated sources and the merge starts from it. *)
BuildSpine ==
    /\ pc = "spine"
    /\ LET dk == dated_keys(dfs)
       IN  IF \E i \in DOMAIN dk : spine_missing(dfs[dk[i]], dk[i])
           THEN /\ pc' = "failed" /\ err' = "KeyError"
                /\ UNCHANGED <<spine, merged, mi>>
           ELSE /\ spine' = build_spine([i \in DOMAIN dk |-> spine_source(dfs[dk[i]], dk[i])],
                                        <<"Symbol", "Date">>)
                /\ merged' = spine'
                /\ mi' = 1
                /\ pc' = "join" /\ err' = err
    /\ UNCHANGED <<astype_keeps_na, target_years, min_years, fnvars, files, edits,
                   include_consolidated, ci, loaded, metadata, common_companies, printed,
                   saved, mfiles, puts, odd, dfs, output>>

(* One iteration of the loop that joins a source onto merged. *)
Join ==
    /\ pc = "join"
    /\ LET key == LoadedSeq[mi]
           d == dfs[key]
           dc == date_col(d, date_map[key])
       IN  IF join_error(merged, d, key) # None
           THEN /\ pc' = "failed" /\ err' = join_error(merged, d, key)
                /\ UNCHANGED <<merged, mi>>
           ELSE /\ merged' = merge_left(merged, temp_frame(d, key, dc), join_on(dc))
                /\ IF mi = Len(LoadedSeq) THEN pc' = "write" /\ mi' = 0
                   ELSE pc' = "join" /\ mi' = mi + 1
                /\ err' = err
    /\ UNCHANGED <<astype_keeps_na, target_years, min_years, fnvars, files, edits,
                   include_consolidated, ci, loaded, metadata, common_companies, printed,
                   saved, mfiles, puts, odd, dfs, spine, output>>

(* merged.to_csv(output_path) *)
Write ==
    /\ pc = "write"
    /\ output' = merged
    /\ pc' = "written"
    /\ UNCHANGED <<astype_keeps_na, target_years, min_years, fnvars, procvars,
                   mfiles, puts, odd, dfs, spine, merged, mi>>

NextMerge == PutFile \/ PutRow \/ MLoad \/ BuildSpine \/ Join \/ Write

SpecMerge == InitMerge /\ [][NextMerge]_vars

-----------------------------------------------------------------------------
(* normalize_company_id of both scripts, applied to a Series of one raw    *)
(* identifier: any string of at most MaxIdLen characters of IdChars, some  *)
(* longer identifiers, or a missing value.                                 *)

IdChars == {" ", "\n", "0", "1", "."}
LongIds == {<<"6", "0", "0", "0", "0", "0">>,
            <<"6", "0", "0", "0", "0", "0", ".", "0">>,
            <<" ", "6", "0", "0", "0", "0", "0", " ">>,
            <<" ", "6", "0", "0", "0", "0", "0", ".", "0", "\n">>,
            <<"0", "0", "0", "0", "0", "1">>,
            <<"1", ".", "0", ".", "0", " ">>}
RawIds == SeqsUpTo(IdChars, MaxIdLen) \cup LongIds \cup {NA}

InitNormalize ==
    /\ pc = "normalize"
    /\ astype_keeps_na \in BOOLEAN
    /\ df \in {<<c>> : c \in RawIds}
    /\ year_col = None
    /\ keep_companies = {}
    /\ target_years = {} /\ min_years = 0
    /\ coverage = Unset
    /\ out = Unset
    /\ out2 = Unset
    /\ ProcIdle

(* out is the result of clean_data.py's function, out2 of merge_filtered.py's. *)
Normalize ==
    /\ pc = "normalize"
    /\ out' = normalize_company_id(df)
    /\ out2' = merge_normalize_company_id(df)
    /\ pc' = "normalized"
    /\ UNCHANGED <<astype_keeps_na, df, year_col, keep_companies, target_years,
                   min_years, coverage, procvars, mergevars>>

SpecNormalize == InitNormalize /\ [][Normalize]_vars

-----------------------------------------------------------------------------
(* Function-level claims *)

(* The year normalize_year assigns to row i of df, and the normalized id of row i. *)
ParsedYear(i) == normalize_year(df, "Accper")[i]
NormId(i) == NormalizeOnce(df.rows[i]["Stkcd"])
(* The distinct target years observed for company c in df. *)
ObservedTargetYears(c) ==
    {y \in target_years : \E i \in DOMAIN df.rows : NormId(i) = c /\ ParsedYear(i) = {y}}
HasParsedYear(c) == \E i \in DOMAIN df.rows : NormId(i) = c /\ ParsedYear(i) # {}
(* The company ids of the dataset, and those plus one id the dataset lacks. *)
DatasetIds == {NormId(i) : i \in DOMAIN df.rows} \ {NA}
CandidateIds == DatasetIds \cup {<<"9">>}

(* C3 as stated: with a year column, for every company id, target-year set *)
(* and minYears value, the company is returned iff its number of distinct  *)
(* observed target years is >= minYears.                                   *)
C3_Original ==
    (pc = "covered" /\ year_col # None) =>
        \A c \in DatasetIds :
            c \in coverage <=> Cardinality(ObservedTargetYears(c)) >= min_years

(* C3 amended: with a year column, a company id is returned iff it has at  *)
(* least one row with a parsed year and its number of distinct observed    *)
(* target years is >= minYears (exactly minYears qualifies, repeated       *)
(* (company, year) rows count once).                                       *)
C3_CoverageThreshold ==
    (pc = "covered" /\ year_col # None) =>
        \A c \in CandidateIds :
            c \in coverage <=>
                (HasParsedYear(c) /\ Cardinality(ObservedTargetYears(c)) >= min_years)

C3_Witness ==
    /\ pc = "covered" /\ year_col # None
    /\ min_years = 2
    /\ <<"1">> \in coverage
    /\ Cardinality(ObservedTargetYears(<<"1">>)) = 2
    /\ \E i, j \in DOMAIN df.rows :
          i # j /\ NormId(i) = <<"1">> /\ NormId(j) = <<"1">> /\ ParsedYear(i) = ParsedYear(j)

(* C4: without a year column the coverage set is exactly the set of        *)
(* normalized ids of the rows whose company id is non-null.                *)
C4_NoYearCoverage ==
    (pc = "covered" /\ year_col = None) =>
        coverage = {NormId(i) : i \in {j \in DOMAIN df.rows : df.rows[j]["Stkcd"] # NA}}

(* C6: filtering the filter's output again, with the same retained set and *)
(* target years, returns a table identical to that output.                 *)
C6_FilterIdempotent ==
    (pc = "refiltered") => out2 = out

(* The rows the filter is to keep: normalized id retained and, with a year *)
(* column, parsed year among the target years.                             *)
KeptIdx ==
    {i \in DOMAIN df.rows :
        /\ NormId(i) \in keep_companies
        /\ year_col # None => (ParsedYear(i) # {} /\ ParsedYear(i) \subseteq target_years)}
NormRow(i) == [df.rows[i] EXCEPT !["Stkcd"] = NormId(i)]

(* C7: the output holds exactly the input rows (company id normalized)     *)
(* whose normalized id is retained and whose parsed year is a target year, *)
(* once per occurrence and in input order, under the input's columns.      *)
C7_FilterKeepsRows ==
    (pc \in {"refilter", "refiltered"}) =>
        /\ out.cols = df.cols
        /\ Len(out.rows) = Cardinality(KeptIdx)
        /\ \A k \in DOMAIN out.rows : out.rows[k] = NormRow(Nth(KeptIdx, k))
        /\ \A k \in DOMAIN out.rows : DOMAIN out.rows[k] = ToSet(df.cols)

C7_Witness ==
    /\ pc = "refilter" /\ year_col # None
    /\ Len(out.rows) = 2 /\ Len(df.rows) = 3
    /\ out.rows[1] = out.rows[2]
    /\ df.rows[2]["Stkcd"] = <<"1", ".", "0">>
    /\ NormId(1) \notin keep_companies

-----------------------------------------------------------------------------
(* Claims about process *)

(* process has computed the intersection and printed its report. *)
Reported == pc \in {"check", "save", "done"} \/ (pc = "failed" /\ err = "RuntimeError")
(* The coverage set of dataset k, from the table process loaded for it. *)
CoverageOf(k) ==
    companies_with_full_years(loaded[k].df, loaded[k].company_col, loaded[k].year_col,
                              target_years, min_years)
LoadedIds ==
    UNION {{NormalizeOnce(loaded[k].df.rows[i][loaded[k].company_col]) :
               i \in DOMAIN loaded[k].df.rows} : k \in DatasetKeys}

(* C2: a company is retained iff it is covered in every configured dataset. *)
C2_RetainedIsIntersection ==
    Reported =>
        /\ DOMAIN loaded = DatasetKeys
        /\ \A c \in LoadedIds \cup common_companies :
              c \in common_companies <=> \A k \in DatasetKeys : c \in CoverageOf(k)

(* A company covered in every dataset but one is not retained. *)
C2_Witness ==
    /\ Reported /\ min_years = 2
    /\ \E c \in LoadedIds :
          /\ c \notin common_companies
          /\ Cardinality({k \in DatasetKeys : c \notin CoverageOf(k)}) = 1
          /\ \E k \in DatasetKeys :
                c \notin CoverageOf(k) /\ \E i \in DOMAIN loaded[k].df.rows :
                    NormalizeOnce(loaded[k].df.rows[i][loaded[k].company_col]) = c

(* Every dataset's row count, unique-company count and covered-company     *)
(* count is among the printed lines.                                       *)
AllDatasetsReported ==
    \A k \in DatasetKeys : \E i \in DOMAIN printed :
        /\ printed[i].line = "dataset" /\ printed[i].key = k
        /\ printed[i].rows = Len(loaded[k].df.rows)
        /\ printed[i].unique =
              Cardinality({loaded[k].df.rows[j][loaded[k].company_col] :
                              j \in DOMAIN loaded[k].df.rows} \ {NA})
        /\ printed[i].covered = Cardinality(CoverageOf(k))

(* C5: with an empty intersection the run never reaches the saving loop    *)
(* and fails with every dataset's counts printed and no filtered file      *)
(* written.                                                                *)
C5_EmptyRetentionFails ==
    (Reported /\ common_companies = {}) =>
        /\ pc \in {"check", "failed"}
        /\ AllDatasetsReported
        /\ \A k \in DatasetKeys : saved[k] = NoFile

C5_Witness ==
    /\ pc = "failed" /\ err = "RuntimeError"
    /\ common_companies = {}
    /\ AllDatasetsReported
    /\ \E k \in DatasetKeys : CoverageOf(k) # {}

(* The datasets whose configuration declares a date column. *)
DatedDatasets == {k \in DatasetKeys : Cfg(k).date_cols # << >>}
(* The date cells of a table of dated dataset k. *)
DateCells(k, d) == {d.rows[i][Cfg(k).date_cols[1]] : i \in DOMAIN d.rows}
(* The date cell parses, and to a 31 December. *)
IsYearEnd(c) == c.fmt # "bad" /\ c.ye
(* The input file of dataset k is present and has the columns the load needs. *)
FileUsable(k) ==
    /\ files[k] # NoFile
    /\ \E c \in ToSet(Cfg(k).company_cols) : HasCol(files[k], c)
    /\ Cfg(k).date_cols # << >> => HasCol(files[k], Cfg(k).date_cols[1])
    /\ Cfg(k).filter_col # None => HasCol(files[k], Cfg(k).filter_col)

(* C13: every row process keeps for the coverage analysis of a dataset     *)
(* with a declared date column is a row of the input whose date parses to  *)
(* a 31 December, and when all files are present with their columns the    *)
(* loading raises nothing, whatever the dates are.                         *)
C13_YearEndOnly ==
    /\ \A k \in DOMAIN loaded \cap DatedDatasets :
          /\ \A c \in DateCells(k, loaded[k].df) : IsYearEnd(c)
          /\ ToSet(loaded[k].df.rows) \subseteq ToSet(files[k].rows)
          /\ metadata[k].row_count
                <= Cardinality({i \in DOMAIN files[k].rows :
                                   IsYearEnd(files[k].rows[i][Cfg(k).date_cols[1]])})
    /\ (pc = "failed" /\ err # "RuntimeError") => \E k \in DatasetKeys : ~FileUsable(k)

(* A file holds a row with an unparsable date; the row is dropped and the  *)
(* run goes on to its end.                                                 *)
C13_Witness ==
    /\ pc = "done"
    /\ \E k \in DatedDatasets :
          /\ \E c \in DateCells(k, files[k]) : c.fmt = "bad"
          /\ Len(loaded[k].df.rows) < Len(files[k].rows)
          /\ loaded[k].df.rows # << >>


(* The rows of company c in the filtered output of dataset k. *)
SavedRowsOf(k, c) ==
    {i \in DOMAIN saved[k].rows : saved[k].rows[i][loaded[k].company_col] = c}
(* The target years company c has rows for in the filtered output of k. *)
SavedTargetYears(k, c) ==
    {y \in target_years :
        \E i \in SavedRowsOf(k, c) :
            LET d == saved[k].rows[i][loaded[k].year_col] IN d.fmt # "bad" /\ d.y = y}

(* C14: after a successful run with minYears >= 1, every retained company  *)
(* has a row in every filtered output and, where the output has a year     *)
(* column, rows for at least minYears distinct target years; and no        *)
(* filtered output holds a row of another company or of a year outside     *)
(* targetYears.                                                            *)
C14_RetainedInOutputs ==
    (pc = "done" /\ min_years >= 1) =>
        \A k \in DatasetKeys :
            /\ saved[k] # NoFile
            /\ \A c \in common_companies :
                  /\ SavedRowsOf(k, c) # {}
                  /\ loaded[k].year_col # None =>
                        Cardinality(SavedTargetYears(k, c)) >= min_years
            /\ \A i \in DOMAIN saved[k].rows :
                  /\ saved[k].rows[i][loaded[k].company_col] \in common_companies
                  /\ loaded[k].year_col # None =>
                        LET d == saved[k].rows[i][loaded[k].year_col]
                        IN  d.fmt # "bad" /\ d.y \in target_years

(* A loaded dataset holds a row of a company that is not retained, another *)
(* a row of a year that is no target year; the run succeeds without them.  *)
C14_Witness ==
    /\ pc = "done" /\ min_years >= 1
    /\ \E k \in DatasetKeys : \E i \in DOMAIN loaded[k].df.rows :
          NormalizeOnce(loaded[k].df.rows[i][loaded[k].company_col]) \notin common_companies
    /\ \E k \in DatedDatasets : \E c \in DateCells(k, loaded[k].df) : c.y \notin target_years
    /\ \A k \in DatasetKeys : Len(saved[k].rows) >= 1

-----------------------------------------------------------------------------
(* Claims about merge_filtered *)

SpineBuilt == pc \in {"join", "write", "written"}
AllJoined == pc \in {"write", "written"}
Dated(k) == date_map[k] # None
(* The column of loaded source k that holds its dates, or None. *)
DateColOf(k) == date_col(dfs[k], date_map[k])
(* The (company, date) projection of the dated loaded source k. *)
Projection(k) ==
    {<<dfs[k].rows[i]["Symbol"], dfs[k].rows[i][DateColOf(k)]>> : i \in DOMAIN dfs[k].rows}
DatedLoaded == {k \in DOMAIN dfs : Dated(k)}
SpineKeys == {<<spine.rows[i]["Symbol"], spine.rows[i]["Date"]>> : i \in DOMAIN spine.rows}
(* The rows of loaded source k that match the spine row s on k's join keys. *)
SourceMatches(k, s) ==
    {i \in DOMAIN dfs[k].rows :
        /\ dfs[k].rows[i]["Symbol"] = s["Symbol"]
        /\ Dated(k) => dfs[k].rows[i][DateColOf(k)] = s["Date"]}
(* The merged rows that carry the key of the spine row s. *)
MergedOf(s) ==
    {j \in DOMAIN merged.rows :
        merged.rows[j]["Symbol"] = s["Symbol"] /\ merged.rows[j]["Date"] = s["Date"]}
(* The non-key columns of loaded source k, and their names in the merged table. *)
NonKeyCols(k) ==
    SelectSeq(dfs[k].cols,
              LAMBDA c : c # "Symbol" /\ (Dated(k) => c \notin {DateColOf(k), "Date"}))
PrefixedCols(k) == [i \in DOMAIN NonKeyCols(k) |-> k \o "_" \o NonKeyCols(k)[i]]
RECURSIVE ExpectedCols(_)
ExpectedCols(n) ==
    IF n = 0 THEN <<"Symbol", "Date">>
    ELSE ExpectedCols(n - 1) \o PrefixedCols(LoadedSeq[n])
JoinedCount == IF pc = "join" THEN mi - 1 ELSE Len(LoadedSeq)
(* Source k holds at most one row for every key it is joined on. *)
UniqueKeys(k) ==
    \A i, j \in DOMAIN dfs[k].rows :
        (/\ dfs[k].rows[i]["Symbol"] = dfs[k].rows[j]["Symbol"]
         /\ Dated(k) => dfs[k].rows[i][DateColOf(k)] = dfs[k].rows[j][DateColOf(k)])
        => i = j

(* C1 as stated: whatever rows the sources hold (several rows for one key  *)
(* included), the merged table has exactly as many rows as the spine.      *)
C1_Original ==
    (pc = "written") => Len(output.rows) = Len(spine.rows)

(* C1 amended: the merged table has at least as many rows as the spine,    *)
(* and exactly as many when no source holds several rows for one of its    *)
(* join keys.                                                              *)
C1_RowCount ==
    (pc = "written") =>
        /\ Len(output.rows) >= Len(spine.rows)
        /\ (\A k \in DOMAIN dfs : UniqueKeys(k)) => Len(output.rows) = Len(spine.rows)

(* Two sources, one of which lacks a spine key, and no row dropped or added. *)
C1_Witness ==
    /\ pc = "written"
    /\ Len(spine.rows) >= 2
    /\ Cardinality(DOMAIN dfs) >= 2
    /\ \A k \in DOMAIN dfs : UniqueKeys(k)
    /\ \E k \in DOMAIN dfs : \E i \in DOMAIN spine.rows : SourceMatches(k, spine.rows[i]) = {}
    /\ Len(output.rows) = Len(spine.rows)

(* C8: once every source is joined, every spine key is in a merged row,    *)
(* and for a source without a row matching the key those rows hold nulls   *)
(* in all of that source's prefixed columns.                               *)
C8_KeysKeptNullFilled ==
    AllJoined =>
        \A i \in DOMAIN spine.rows :
            /\ MergedOf(spine.rows[i]) # {}
            /\ \A k \in DOMAIN dfs :
                  SourceMatches(k, spine.rows[i]) = {} =>
                      \A j \in MergedOf(spine.rows[i]) :
                          \A n \in ToSet(PrefixedCols(k)) :
                              n \in DOMAIN merged.rows[j] /\ merged.rows[j][n] = NA

C8_Witness ==
    /\ pc = "written"
    /\ \E i \in DOMAIN spine.rows : \E k1, k2 \in DOMAIN dfs :
          /\ SourceMatches(k1, spine.rows[i]) = {}
          /\ SourceMatches(k2, spine.rows[i]) # {}
          /\ PrefixedCols(k1) # << >>
          /\ \A j \in MergedOf(spine.rows[i]) :
                \A n \in ToSet(PrefixedCols(k1)) : output.rows[j][n] = NA

(* C9: the spine holds no pair twice, and its pairs are exactly the        *)
(* (company, date) pairs of the dated sources, so it is at least as large  *)
(* as every single source's deduplicated projection.                       *)
C9_SpineIsDedupUnion ==
    SpineBuilt =>
        /\ NoDup(spine.rows)
        /\ spine.cols = <<"Symbol", "Date">>
        /\ SpineKeys = UNION {Projection(k) : k \in DatedLoaded}
        /\ \A k \in DatedLoaded : Len(spine.rows) >= Cardinality(Projection(k))

(* One pair is in two sources, another in one source only. *)
C9_Witness ==
    /\ SpineBuilt
    /\ \E p \in SpineKeys : Cardinality({k \in DatedLoaded : p \in Projection(k)}) >= 2
    /\ \E p \in SpineKeys : Cardinality({k \in DatedLoaded : p \in Projection(k)}) = 1
    /\ Cardinality(SpineKeys) = Len(spine.rows)

(* C10: the columns of the merged table are the two key columns and, for   *)
(* every joined source, each non-key column under the source key and an    *)
(* underscore, and no two of them have the same name; no join is refused   *)
(* for a clash of non-key names.                                           *)
C10_NoColumnClash ==
    /\ SpineBuilt =>
          /\ NoDup(merged.cols)
          /\ merged.cols = ExpectedCols(JoinedCount)
    /\ err # "MergeError"

(* Three sources that share column names are joined. *)
C10_Witness ==
    /\ pc = "written"
    /\ Cardinality(DOMAIN dfs) >= 3
    /\ \A k \in DOMAIN dfs : "v" \in ToSet(NonKeyCols(k))
    /\ \E k \in DOMAIN dfs : "Stkcd" \in ToSet(NonKeyCols(k)) /\ Dated(k)
    /\ NoDup(output.cols)

(* The columns of the file of source k as it was found. *)
FileCols(k) == ToSet(mfiles[k].cols)
HasCompanyCol(k) == "Stkcd" \in FileCols(k) \/ "Symbol" \in FileCols(k)
FallbacksPresent(k) == {i \in 1..4 : <<"Accper", "Accper.1", "EndDate", "EndDate.1">>[i] \in FileCols(k)}
(* Source k lacks its declared date column and has a fallback name. *)
FallbackUsed(k) == Dated(k) /\ date_map[k] \notin FileCols(k) /\ FallbacksPresent(k) # {}
(* Source k has neither its declared date column nor a fallback name. *)
NoDateCol(k) == Dated(k) /\ date_map[k] \notin FileCols(k) /\ FallbacksPresent(k) = {}
FirstFallbackPresent(k) ==
    <<"Accper", "Accper.1", "EndDate", "EndDate.1">>[
        CHOOSE i \in FallbacksPresent(k) : \A j \in FallbacksPresent(k) : i <= j]
(* Source k has been joined onto merged. *)
Joined(k) == \E n \in 1..JoinedCount : LoadedSeq[n] = k
(* The (company, date) pairs of source k read from its first fallback.    *)
FallbackPairs(k) ==
    {<<dfs[k].rows[i]["Symbol"], dfs[k].rows[i][FirstFallbackPresent(k)]>> :
        i \in DOMAIN dfs[k].rows}
(* Source k is in merged, joined on (company, first fallback present).    *)
JoinedOnFallback(k) ==
    LET f == FirstFallbackPresent(k)
    IN  /\ (k \o "_" \o f) \notin ToSet(merged.cols)
        /\ (k \o "_v") \in ToSet(merged.cols)
        /\ \A i \in DOMAIN dfs[k].rows : \E j \in DOMAIN merged.rows :
              /\ merged.rows[j]["Symbol"] = dfs[k].rows[i]["Symbol"]
              /\ merged.rows[j]["Date"] = dfs[k].rows[i][f]
              /\ merged.rows[j][k \o "_v"] = dfs[k].rows[i]["v"]
        /\ \A j \in DOMAIN merged.rows :
              \/ merged.rows[j][k \o "_v"] = NA
              \/ \E i \in DOMAIN dfs[k].rows :
                    /\ merged.rows[j]["Symbol"] = dfs[k].rows[i]["Symbol"]
                    /\ merged.rows[j]["Date"] = dfs[k].rows[i][f]
                    /\ merged.rows[j][k \o "_v"] = dfs[k].rows[i]["v"]
(* A dated source with a fallback name contributes its pairs to the spine *)
(* and is joined on them.                                                  *)
FallbackResolved ==
    /\ SpineBuilt =>
          \A k \in DatedLoaded : FallbackUsed(k) => FallbackPairs(k) \subseteq SpineKeys
    /\ SpineBuilt =>
          \A k \in DatedLoaded : (FallbackUsed(k) /\ Joined(k)) => JoinedOnFallback(k)

(* C11 as stated: a dated source that lacks its declared date column but   *)
(* has a fallback name is put in the spine and joined on (company, first   *)
(* fallback present), and a missing-column error is raised only when a     *)
(* dated source has neither the declared name nor any fallback.            *)
C11_Original ==
    /\ FallbackResolved
    /\ (pc = "failed" /\ err = "KeyError") => \E k \in DOMAIN dfs : NoDateCol(k)

(* C11 amended: a dated source that lacks its declared date column but has *)
(* a fallback name is put in the spine and joined on (company, first       *)
(* fallback present); a missing-column error is raised only when a loaded  *)
(* source has no company column (Stkcd or Symbol) or a dated source has    *)
(* neither the declared name nor any fallback, and then no merged table is *)
(* written.                                                                *)
C11_DateFallback ==
    /\ FallbackResolved
    /\ (pc = "failed" /\ err = "KeyError") =>
          \E k \in DOMAIN dfs : NoDateCol(k) \/ ~HasCompanyCol(k)
    /\ AllJoined => \A k \in DOMAIN dfs : ~NoDateCol(k) /\ HasCompanyCol(k)

(* A source whose dates are under a fallback name is joined and matched,   *)
(* beside a source with its declared name.                                 *)
C11_Witness ==
    /\ pc = "written"
    /\ \E k \in DatedLoaded :
          /\ FallbackUsed(k)
          /\ \E j \in DOMAIN output.rows : output.rows[j][k \o "_v"] # NA
    /\ \E k \in DatedLoaded : ~FallbackUsed(k) /\ dfs[k].rows # << >>

-----------------------------------------------------------------------------
(* Claims about normalize_company_id *)

(* s without its leading and trailing whitespace. *)
Trimmed(s) ==
    LET ink == {i \in DOMAIN s : s[i] \notin {" ", "\t", "\n"}}
    IN  IF ink = {} THEN << >>
        ELSE SubSeq(s, CHOOSE i \in ink : \A j \in ink : i <= j,
                       CHOOSE i \in ink : \A j \in ink : i >= j)
(* t without one trailing ".0". *)
WithoutDotZero(t) ==
    IF Len(t) >= 2 /\ SubSeq(t, Len(t) - 1, Len(t)) = <<".", "0">>
    THEN SubSeq(t, 1, Len(t) - 2) ELSE t
Id600000 == <<"6", "0", "0", "0", "0", "0">>

(* C12: both normalize_company_id functions map a raw identifier to its    *)
(* string form with leading and trailing whitespace removed and then one   *)
(* trailing ".0" removed, and to nothing else: leading zeros stay, and     *)
(* "600000", "600000.0" and " 600000 " all become "600000".                *)
C12_NormalizeId ==
    (pc = "normalized" /\ df[1] # NA) =>
        /\ out = <<WithoutDotZero(Trimmed(df[1]))>>
        /\ out2 = out
        /\ df[1] \in {Id600000, <<"6", "0", "0", "0", "0", "0", ".", "0">>, <<" ", "6", "0", "0", "0", "0", "0", " ">>}
              => out[1] = Id600000
        /\ df[1] = <<"0", "0", "0", "0", "0", "1">> => out[1] = df[1] /\ out[1] # <<"1">>
        /\ (Trimmed(df[1]) = df[1] /\ WithoutDotZero(df[1]) = df[1]) => out[1] = df[1]

(* An identifier with whitespace on both sides and a trailing ".0".        *)
C12_Witness ==
    /\ pc = "normalized"
    /\ df = <<<<" ", "6", "0", "0", "0", "0", "0", ".", "0", "\n">>>>
    /\ out = <<Id600000>>
    /\ out2 = <<Id600000>>

=============================================================================
